---- MODULE Spec2Model ----
(***************************************************************************)
(* A model of auto3dseg/notebooks/hpo_nni.ipynb: a linear script of code   *)
(* cells.  Each code cell is one action; an uncaught exception ends the    *)
(* run (pc = "failed") with the assignments made before it kept.  External *)
(* library calls are recorded, in order, in the call log `calls`.          *)
(***************************************************************************)
EXTENDS Integers, Sequences, FiniteSets, TLC

VARIABLES
    pc,                        \* next code cell to run, "done" or "failed"
    error,                     \* the uncaught exception, "none" if none
    defined,                   \* names bound in the notebook's namespace
    calls,                     \* log of external calls, oldest first
    directory,                 \* os.environ.get("MONAI_DATA_DIRECTORY")
    fs,                        \* paths that exist on disk
    algo_objects,              \* algorithm artifacts persisted in work_dir
    device_count,              \* what torch.cuda.device_count() returned
    root_dir, dataroot,
    input_cfg,
    bundle_history,            \* bundle_generator's in-memory history
    history, selected_algorithm_index, algo_dict, algo_name, algo,
    supplied_max_epochs,       \* max_epochs as written, before the safeguard
    max_epochs, num_gpus, num_images_per_batch, n_data,
    override_param,
    nni_gen,
    nni_config,
    nni_yaml_doc               \* the document written to ./nni_config.yaml

envVars == <<directory, fs, algo_objects, device_count>>
dataVars == <<root_dir, dataroot>>
selVars == <<history, selected_algorithm_index, algo_dict, algo_name, algo>>
calcVars == <<supplied_max_epochs, max_epochs, num_gpus, num_images_per_batch,
              n_data, override_param>>
hpoVars == <<nni_gen, nni_config, nni_yaml_doc>>
vars == <<pc, error, defined, calls, envVars, dataVars, input_cfg,
          bundle_history, selVars, calcVars, hpoVars>>

----------------------------------------------------------------------------
(* Bounds of the model *)

MaxHist == 2             \* longest history
MaxKeys == 2             \* most names in one history entry
MaxIndex == 2            \* largest selected_algorithm_index
MaxNegIndex == 1         \* selected_algorithm_index >= -MaxNegIndex
MaxGpus == 2             \* most accelerators detected
MaxEpochs == 3           \* max_epochs <= MaxEpochs
MaxNegEpochs == 1        \* max_epochs >= -MaxNegEpochs
MaxBatch == 3            \* num_images_per_batch <= MaxBatch
MaxData == 24            \* n_data <= MaxData

(* Literals of the notebook *)

EpochsLiteral == 2
BatchLiteral == 2
DataLiteral == 24
MinEpochs == 2

AlgoNames == {"segresnet2d", "dints", "swinunetr"}

----------------------------------------------------------------------------
(* Paths: a path is the sequence of its components *)

PathJoin(p, name) == Append(p, name)

msd_task == "Task04_Hippocampus"
EnvDir == <<"data">>
TempDir == <<"tmp", "mkdtemp">>
work_dir == <<".", "hpo_nni_work_dir">>
datastats_file == PathJoin(work_dir, "datastats.yaml")
datalist_file == <<"..", "tasks", "msd", msd_task, "msd_task04_hippocampus_folds.json">>
input == <<".", "input.yaml">>
nni_yaml == <<".", "nni_config.yaml">>

----------------------------------------------------------------------------
(* External calls *)

Call(op, arg) == [op |-> op, arg |-> arg, out |-> "returned"]
Raised(op, arg) == [op |-> op, arg |-> arg, out |-> "raised"]
Called(op) == {i \in 1..Len(calls) : calls[i].op = op}
Fail(exc) == pc' = "failed" /\ error' = exc

----------------------------------------------------------------------------
(* History: a sequence of entries, each entry an ordered name -> handle     *)
(* mapping, held as the sequence of its <<name, handle>> items              *)

Handle(src, pos, name) == [src |-> src, pos |-> pos, name |-> name]
NoAlgo == Handle("none", 0, "none")

NameSeqs ==
    {s \in UNION {[1..k -> AlgoNames] : k \in 1..MaxKeys} :
        \A i, j \in DOMAIN s : i # j => s[i] # s[j]}
(* one entry per generated algorithm: no name occurs in two entries *)
Shapes ==
    {sh \in UNION {[1..n -> NameSeqs] : n \in 0..MaxHist} :
        \A i, j \in DOMAIN sh :
            i # j => {sh[i][k] : k \in DOMAIN sh[i]} \cap {sh[j][k] : k \in DOMAIN sh[j]} = {}}
MkHistory(src, shape) ==
    [i \in 1..Len(shape) |->
        [j \in 1..Len(shape[i]) |->
            <<shape[i][j], Handle(src, i - 1, shape[i][j])>>]]
GeneratedHistories == {MkHistory("mem", sh) : sh \in Shapes}
Persisted(h) ==
    [i \in 1..Len(h) |->
        [j \in 1..Len(h[i]) |-> <<h[i][j][1], [h[i][j][2] EXCEPT !.src = "disk"]>>]]

DictKeys(d) == [j \in 1..Len(d) |-> d[j][1]]
DictGet(d, k) == d[CHOOSE j \in 1..Len(d) : d[j][1] = k][2]

(* Python's seq[i]: counted from the end when negative *)
InRange(s, i) == -Len(s) <= i /\ i < Len(s)
PyIndex(s, i) == IF i >= 0 THEN s[i + 1] ELSE s[Len(s) + i + 1]

----------------------------------------------------------------------------
(* Python values: tagged records.  Text is a sequence of one-character     *)
(* strings; a float is held as the decimal m * 10^e that its literal        *)
(* denotes, with m not a multiple of ten.                                   *)

Str(cs) == [py |-> "str", s |-> cs]
PyNone == [py |-> "NoneType"]
PyBool(b) == [py |-> "bool", b |-> b]
PyIntV(n) == [py |-> "int", n |-> n]
PyFloat(m, e) == [py |-> "float", m |-> m, e |-> e]
PyList(items) == [py |-> "list", items |-> items]
PyDict(pairs) == [py |-> "dict", pairs |-> pairs]       \* <<key, value>> in insertion order

----------------------------------------------------------------------------
Init ==
    /\ pc = "cell6"
    /\ error = "none"
    /\ defined = {}
    /\ calls = <<>>
    /\ directory \in {<<>>, EnvDir}          \* <<>> is None: the variable is unset
    /\ fs \in {s \in SUBSET {PathJoin(EnvDir, msd_task), work_dir, datastats_file} :
                  datastats_file \in s => work_dir \in s}
    /\ algo_objects = <<>>
    /\ device_count = 0
    /\ root_dir = <<>>
    /\ dataroot = <<>>
    /\ input_cfg = [name |-> msd_task]
    /\ bundle_history = <<>>
    /\ history = <<>>
    /\ selected_algorithm_index = 0
    /\ algo_dict = <<>>
    /\ algo_name = "none"
    /\ algo = NoAlgo
    /\ supplied_max_epochs = 0
    /\ max_epochs = 0
    /\ num_gpus = 0
    /\ num_images_per_batch = 0
    /\ n_data = 0
    /\ override_param = [num_iterations |-> 0]
    /\ nni_gen = [algo |-> NoAlgo, params |-> [num_iterations |-> 0]]
    /\ nni_config = PyNone
    /\ nni_yaml_doc = <<>>

----------------------------------------------------------------------------
(* Download dataset *)
(* root_dir = tempfile.mkdtemp() if directory is None else directory *)
RootDir == IF directory = <<>> THEN TempDir ELSE directory
(* variant: the existence test made on the archive instead of the dataset *)
NeedDownloadArchive(dr) == PathJoin(RootDir, "Task04_Hippocampus.tar") \notin fs

(* if not os.path.exists(dataroot) *)
NeedDownload(dr) == dr \notin fs

Cell6 ==
    /\ pc = "cell6"
    /\ LET rd == RootDir
           dr == PathJoin(rd, msd_task)
           made == IF directory = <<>> THEN {TempDir} ELSE {}
       IN /\ root_dir' = rd
          /\ dataroot' = dr
          /\ IF NeedDownload(dr)
             THEN \/ /\ calls' = Append(calls, Call("download_and_extract", rd))
                     /\ fs' = fs \cup made \cup {dr, PathJoin(rd, "Task04_Hippocampus.tar")}
                     /\ pc' = "cell8"
                     /\ error' = error
                     /\ defined' = defined \cup {"root_dir", "dataroot", "datalist_file"}
                  \/ /\ calls' = Append(calls, Raised("download_and_extract", rd))
                     /\ fs' = fs \cup made
                     /\ Fail("URLError")
                     /\ defined' = defined \cup {"root_dir", "dataroot"}
             ELSE /\ calls' = calls
                  /\ fs' = fs \cup made
                  /\ pc' = "cell8"
                  /\ error' = error
                  /\ defined' = defined \cup {"root_dir", "dataroot", "datalist_file"}
    /\ UNCHANGED <<directory, algo_objects, device_count, input_cfg, bundle_history,
                   selVars, calcVars, hpoVars>>

(* Define experiment file paths *)
Cell8 ==
    /\ pc = "cell8"
    /\ fs' = fs \cup {work_dir}
    /\ defined' = defined \cup {"nni_yaml", "work_dir", "datastats_file"}
    /\ pc' = "cell10"
    /\ UNCHANGED <<error, calls, directory, algo_objects, device_count, dataVars,
                   input_cfg, bundle_history, selVars, calcVars, hpoVars>>

(* Prepare an input yaml.  The notebook's literal has no "multigpu" key; the *)
(* optional flag is an input of the run.                                     *)
BaseCfg ==
    [name |-> msd_task, task |-> "segmentation", modality |-> "MRI",
     datalist |-> datalist_file, dataroot |-> dataroot]
WithMultigpu(cfg, flag) ==
    [k \in DOMAIN cfg \cup {"multigpu"} |-> IF k = "multigpu" THEN flag ELSE cfg[k]]
InputCfgs == {BaseCfg} \cup {WithMultigpu(BaseCfg, f) : f \in BOOLEAN}

Cell10 ==
    /\ pc = "cell10"
    /\ input_cfg' \in InputCfgs
    /\ calls' = Append(calls, Call("ConfigParser.export_config_file", input))
    /\ fs' = fs \cup {input}
    /\ defined' = defined \cup {"input_cfg", "input"}
    /\ pc' = "cell12"
    /\ UNCHANGED <<error, directory, algo_objects, device_count, dataVars,
                   bundle_history, selVars, calcVars, hpoVars>>

(* Create Bundle Generators *)
(* variant: the statistics recomputed on every run *)
AlwaysNeedStats == TRUE

NeedStats == datastats_file \notin fs
AnalyzerCalls(ok) ==
    IF NeedStats
    THEN <<Call("DataAnalyzer", datastats_file),
           IF ok THEN Call("get_all_case_stats", datastats_file)
                 ELSE Raised("get_all_case_stats", datastats_file)>>
    ELSE <<>>

Cell12 ==
    /\ pc = "cell12"
    /\ \/ \* the analyzer raises
          /\ NeedStats
          /\ calls' = calls \o AnalyzerCalls(FALSE)
          /\ Fail("AnalyzerError")
          /\ defined' = defined \cup {"da"}
          /\ UNCHANGED <<fs, algo_objects, bundle_history, history>>
       \/ \* the generator raises
          /\ calls' = calls \o AnalyzerCalls(TRUE)
                        \o <<Call("BundleGen", datastats_file), Raised("generate", work_dir)>>
          /\ fs' = fs \cup {datastats_file}
          /\ Fail("GenerateError")
          /\ defined' = defined \cup (IF NeedStats THEN {"da"} ELSE {}) \cup {"bundle_generator"}
          /\ UNCHANGED <<algo_objects, bundle_history, history>>
       \/ \E h \in GeneratedHistories :
          /\ calls' = calls \o AnalyzerCalls(TRUE)
                        \o <<Call("BundleGen", datastats_file), Call("generate", work_dir),
                             Call("get_history", work_dir),
                             Call("export_bundle_algo_history", work_dir)>>
          /\ fs' = fs \cup {datastats_file}
          /\ bundle_history' = h
          /\ history' = h
          /\ algo_objects' = Persisted(h)
          /\ defined' = defined \cup (IF NeedStats THEN {"da"} ELSE {})
                           \cup {"bundle_generator", "history"}
          /\ pc' = "cell14"
          /\ error' = error
    /\ UNCHANGED <<directory, device_count, dataVars, input_cfg,
                   selected_algorithm_index, algo_dict, algo_name, algo,
                   calcVars, hpoVars>>

(* Create Algo object from bundle_generator history *)
Indices == (0 - MaxNegIndex)..MaxIndex

(* variant: an empty history accepted (the assert left out) *)
NeedFallbackOnRaise(raised) == raised

(* the try/except: the history selected from, and the calls made *)
NeedFallback(raised) == raised \/ Len(bundle_history) = 0
ResolveHistory(raised) == IF NeedFallback(raised) THEN algo_objects ELSE bundle_history
ResolveCalls(raised) ==
    <<IF raised THEN Raised("get_history", work_dir) ELSE Call("get_history", work_dir)>>
        \o (IF NeedFallback(raised)
            THEN <<Call("import_bundle_algo_history", work_dir)>> ELSE <<>>)

(* variant: the first name of the selected entry *)
FirstName(i) == 0

(* the name picked inside the selected entry *)
NameIndex(i) == i

Cell14 ==
    /\ pc = "cell14"
    /\ \E i \in Indices, raised \in BOOLEAN :
        LET h == ResolveHistory(raised)
            d == PyIndex(h, i)
            ks == DictKeys(d)
            k == PyIndex(ks, NameIndex(i))
        IN /\ selected_algorithm_index' = i
           /\ calls' = calls \o ResolveCalls(raised)
           /\ history' = h
           /\ IF ~InRange(h, i)
              THEN /\ Fail("IndexError")
                   /\ defined' = defined \cup {"selected_algorithm_index", "history"}
                   /\ UNCHANGED <<algo_dict, algo_name, algo>>
              ELSE IF ~InRange(ks, NameIndex(i))
              THEN /\ Fail("IndexError")
                   /\ algo_dict' = d
                   /\ defined' = defined \cup {"selected_algorithm_index", "history",
                                               "algo_dict"}
                   /\ UNCHANGED <<algo_name, algo>>
              ELSE /\ algo_dict' = d
                   /\ algo_name' = k
                   /\ algo' = DictGet(d, k)
                   /\ defined' = defined \cup {"selected_algorithm_index", "history",
                                               "algo_dict", "algo_name", "algo"}
                   /\ pc' = "cell15"
                   /\ error' = error
    /\ UNCHANGED <<envVars, dataVars, input_cfg, bundle_history, calcVars, hpoVars>>

(* Hyper-parameter override calculator *)

(* variant: the safeguard left out *)
NoSafeguard(e) == e

(* max(max_epochs, 2) *)
SafeguardEpochs(e) == IF e >= MinEpochs THEN e ELSE MinEpochs

(* variants: all accelerators only when the flag is set; at least one GPU *)
ResolveGpusUnlessSet(cfg, dc) ==
    IF "multigpu" \in DOMAIN cfg /\ cfg["multigpu"] THEN dc ELSE 1
ResolveGpusAtLeastOne(cfg, dc) ==
    IF "multigpu" \in DOMAIN cfg /\ ~cfg["multigpu"] THEN 1
    ELSE IF dc = 0 THEN 1 ELSE dc

(* 1 if "multigpu" in input_cfg and not input_cfg["multigpu"] else device_count() *)
ResolveGpus(cfg, dc) ==
    IF "multigpu" \in DOMAIN cfg /\ ~cfg["multigpu"] THEN 1 ELSE dc

(* Python's true division and int(): a quotient is kept as an exact fraction *)
(* and int() drops its fractional part (rounds toward zero)                   *)
Rat(p) == [num |-> p, den |-> 1]
TrueDiv(r, d) == [num |-> r.num, den |-> r.den * d]
Abs(x) == IF x >= 0 THEN x ELSE -x
PyInt(r) ==
    IF (r.num >= 0) = (r.den > 0)
    THEN Abs(r.num) \div Abs(r.den)
    ELSE -(Abs(r.num) \div Abs(r.den))

(* variant: round() in place of int() *)
NIterRounded(e, n, b, g) == (2 * e * n + b * g) \div (2 * b * g)

(* n_iter = int(num_epoch * n_data / num_images_per_batch / num_gpus) *)
NIter(e, n, b, g) == PyInt(TrueDiv(TrueDiv(Rat(e * n), b), g))
(* n_iter_val = int(n_iter / 2) *)
NIterVal(it) == PyInt(TrueDiv(Rat(it), 2))
ZeroDivision(b, g) == b = 0 \/ g = 0

OverrideParam(e, n, b, g) ==
    [num_iterations |-> NIter(e, n, b, g),
     num_iterations_per_validation |-> NIterVal(NIter(e, n, b, g)),
     num_images_per_batch |-> b,
     num_epochs |-> e,
     num_warmup_iterations |-> NIterVal(NIter(e, n, b, g))]

Cell15With(e, b, n, dc) ==
    /\ pc = "cell15"
    /\ device_count' = dc
    /\ supplied_max_epochs' = e
    /\ max_epochs' = SafeguardEpochs(e)
    /\ num_gpus' = ResolveGpus(input_cfg, dc)
    /\ num_images_per_batch' = b
    /\ n_data' = n
    /\ IF ZeroDivision(b, num_gpus')
       THEN /\ Fail("ZeroDivisionError")
            /\ defined' = defined \cup {"max_epochs", "num_gpus", "num_epoch",
                                        "num_images_per_batch", "n_data"}
            /\ UNCHANGED override_param
       ELSE /\ override_param' = OverrideParam(max_epochs', n, b, num_gpus')
            /\ defined' = defined \cup {"max_epochs", "num_gpus", "num_epoch",
                                        "num_images_per_batch", "n_data", "n_iter",
                                        "n_iter_val", "override_param"}
            /\ pc' = "cell16"
            /\ error' = error
    /\ UNCHANGED <<calls, directory, fs, algo_objects, dataVars, input_cfg,
                   bundle_history, selVars, hpoVars>>

(* in a run of the notebook: its literals, and a batch size of zero *)
Cell15 ==
    \E b \in {0, BatchLiteral}, dc \in 0..MaxGpus :
        Cell15With(EpochsLiteral, b, DataLiteral, dc)

(* the calculator over its whole input range *)
Calculate ==
    \E e \in (0 - MaxNegEpochs)..MaxEpochs, b \in 0..MaxBatch, n \in 0..MaxData,
       dc \in 0..MaxGpus :
        Cell15With(e, b, n, dc)

(* HPO adapter *)
Cell16 ==
    /\ pc = "cell16"
    /\ nni_gen' = [algo |-> algo, params |-> override_param]
    /\ calls' = Append(calls, Call("NNIGen", work_dir))
    /\ defined' = defined \cup {"nni_gen"}
    /\ pc' = "cell18"
    /\ UNCHANGED <<error, envVars, dataVars, input_cfg, bundle_history, selVars,
                   calcVars, nni_config, nni_yaml_doc>>

(* HPO config emitter: yaml.dump(nni_config, f)                              *)

Digits == <<"0", "1", "2", "3", "4", "5", "6", "7", "8", "9">>
DigitSet == {Digits[i] : i \in 1..Len(Digits)}
DigitVal(c) == (CHOOSE i \in 1..Len(Digits) : Digits[i] = c) - 1

(* code-point order of the characters that occur *)
Alphabet ==
    <<"+", "-", ".">> \o Digits \o <<":">>
    \o <<"A", "B", "C", "D", "E", "F", "G", "H", "I", "J", "K", "L", "M",
         "N", "O", "P", "Q", "R", "S", "T", "U", "V", "W", "X", "Y", "Z">>
    \o <<"_">>
    \o <<"a", "b", "c", "d", "e", "f", "g", "h", "i", "j", "k", "l", "m",
         "n", "o", "p", "q", "r", "s", "t", "u", "v", "w", "x", "y", "z">>
    \o <<"~">>
Ord(c) == CHOOSE i \in 1..Len(Alphabet) : Alphabet[i] = c

RECURSIVE StrLess(_, _)
StrLess(a, b) ==
    IF b = <<>> THEN FALSE
    ELSE IF a = <<>> THEN TRUE
    ELSE IF a[1] # b[1] THEN Ord(a[1]) < Ord(b[1])
    ELSE StrLess(Tail(a), Tail(b))

(* str(n) and int(text, base) *)
RECURSIVE NatText(_)
NatText(n) ==
    IF n < 10 THEN <<Digits[n + 1]>> ELSE Append(NatText(n \div 10), Digits[(n % 10) + 1])
IntText(n) == IF n < 0 THEN <<"-">> \o NatText(-n) ELSE NatText(n)

RECURSIVE ParseNat(_, _, _)
ParseNat(cs, base, acc) ==
    IF cs = <<>> THEN acc ELSE ParseNat(Tail(cs), base, acc * base + DigitVal(cs[1]))

Repeat(c, n) == [i \in 1..n |-> c]
Drop(cs, n) == SubSeq(cs, n + 1, Len(cs))
Take(cs, n) == SubSeq(cs, 1, n)
Find(cs, chars) ==          \* first position of one of chars, 0 if none
    IF \E i \in 1..Len(cs) : cs[i] \in chars
    THEN CHOOSE i \in 1..Len(cs) : cs[i] \in chars /\ \A j \in 1..(i - 1) : cs[j] \notin chars
    ELSE 0
Without(cs, c) == SelectSeq(cs, LAMBDA x : x # c)
AllIn(cs, chars) == \A i \in 1..Len(cs) : cs[i] \in chars
Unsigned(cs) == IF cs # <<>> /\ cs[1] \in {"-", "+"} THEN Tail(cs) ELSE cs

(* variant: one zero too many after the point (values below 1) *)
FloatReprOffByOne(m, e) ==
    <<"0", ".">> \o Repeat("0", 1 - (Len(NatText(Abs(m))) + e)) \o NatText(Abs(m))

(* repr(float): the shortest digits, in fixed notation when the decimal      *)
(* point falls within -4 < decpt <= 16, in exponent notation otherwise        *)
FloatRepr(m, e) ==
    LET ds == NatText(Abs(m))
        decpt == Len(ds) + e
        sign == IF m < 0 THEN <<"-">> ELSE <<>>
        ex == decpt - 1
        exText == IF Abs(ex) < 10 THEN <<"0">> \o NatText(Abs(ex)) ELSE NatText(Abs(ex))
    IN IF m = 0 THEN <<"0", ".", "0">>
       ELSE IF -4 < decpt /\ decpt <= 16
       THEN sign \o (IF decpt <= 0 THEN <<"0", ".">> \o Repeat("0", -decpt) \o ds
                     ELSE IF decpt >= Len(ds)
                     THEN ds \o Repeat("0", decpt - Len(ds)) \o <<".", "0">>
                     ELSE Take(ds, decpt) \o <<".">> \o Drop(ds, decpt))
       ELSE sign \o <<ds[1]>> \o (IF Len(ds) > 1 THEN <<".">> \o Tail(ds) ELSE <<>>)
                 \o <<"e">> \o (IF ex < 0 THEN <<"-">> ELSE <<"+">>) \o exText

(* SafeRepresenter.represent_float: repr(data).lower(), with ".0" put before *)
(* the exponent when the text has no "."                                     *)
RepresentFloat(m, e) ==
    LET r == FloatRepr(m, e)
        at == Find(r, {"e"})
    IN IF Find(r, {"."}) = 0 /\ at # 0
       THEN Take(r, at - 1) \o <<".", "0">> \o Drop(r, at - 1)
       ELSE r

(* Resolver: the implicit tag of a plain scalar (YAML 1.1 patterns; the      *)
(* binary, hexadecimal, sexagesimal, timestamp, merge and value patterns     *)
(* cannot match text over Alphabet that the notebook writes and are left out *)
(* except where noted)                                                       *)
NullTexts == {<<>>, <<"~">>, <<"n", "u", "l", "l">>, <<"N", "u", "l", "l">>,
              <<"N", "U", "L", "L">>}
TrueTexts == {<<"y", "e", "s">>, <<"Y", "e", "s">>, <<"Y", "E", "S">>,
              <<"t", "r", "u", "e">>, <<"T", "r", "u", "e">>, <<"T", "R", "U", "E">>,
              <<"o", "n">>, <<"O", "n">>, <<"O", "N">>}
FalseTexts == {<<"n", "o">>, <<"N", "o">>, <<"N", "O">>,
               <<"f", "a", "l", "s", "e">>, <<"F", "a", "l", "s", "e">>,
               <<"F", "A", "L", "S", "E">>,
               <<"o", "f", "f">>, <<"O", "f", "f">>, <<"O", "F", "F">>}

ExponentOk(x) ==            \* (?:[eE][-+][0-9]+)?
    \/ x = <<>>
    \/ /\ Len(x) >= 3
       /\ x[1] \in {"e", "E"}
       /\ x[2] \in {"-", "+"}
       /\ AllIn(Drop(x, 2), DigitSet)
IsFloatText(t) ==
    LET u == Unsigned(t)
        at == Find(t, {"e", "E"})
        bodyOf(x) == IF Find(x, {"e", "E"}) = 0 THEN x ELSE Take(x, Find(x, {"e", "E"}) - 1)
        expOf(x) == IF Find(x, {"e", "E"}) = 0 THEN <<>> ELSE Drop(x, Find(x, {"e", "E"}) - 1)
        dot == Find(bodyOf(u), {"."})
    IN \/ \* [-+]?(?:[0-9][0-9_]*)\.[0-9_]*(?:[eE][-+][0-9]+)?
          /\ dot > 1
          /\ u[1] \in DigitSet
          /\ AllIn(Take(bodyOf(u), dot - 1), DigitSet \cup {"_"})
          /\ AllIn(Drop(bodyOf(u), dot), DigitSet \cup {"_"})
          /\ ExponentOk(expOf(u))
       \/ \* \.[0-9_]+(?:[eE][-+][0-9]+)?
          /\ t # <<>> /\ t[1] = "."
          /\ Len(bodyOf(t)) > 1
          /\ AllIn(Tail(bodyOf(t)), DigitSet \cup {"_"})
          /\ ExponentOk(expOf(t))
IsIntText(t) ==
    LET u == Unsigned(t)
    IN /\ u # <<>>
       /\ \/ u = <<"0">>
          \/ u[1] \in DigitSet \ {"0"} /\ AllIn(Tail(u), DigitSet \cup {"_"})
          \/ /\ u[1] = "0" /\ Len(u) > 1          \* octal: [-+]?0[0-7_]+
             /\ AllIn(Tail(u), {"0", "1", "2", "3", "4", "5", "6", "7", "_"})
ScalarTag(t) ==
    IF t \in TrueTexts \cup FalseTexts THEN "bool"
    ELSE IF IsFloatText(t) THEN "float"
    ELSE IF IsIntText(t) THEN "int"
    ELSE IF t \in NullTexts THEN "null"
    ELSE "str"

(* Emitter: a scalar is written plain when the resolver gives its text the   *)
(* value's own tag, else quoted, with the tag spelled out unless it is str   *)
PlainAllowed(t) == t # <<>> /\ t # <<"-">> /\ t[1] # "~"
EmitScalar(tag, t) ==
    IF ScalarTag(t) = tag /\ PlainAllowed(t)
    THEN [kind |-> "scalar", text |-> t, style |-> "plain", tag |-> ""]
    ELSE [kind |-> "scalar", text |-> t, style |-> "single",
          tag |-> IF tag = "str" THEN "" ELSE tag]

RECURSIVE SortPairs(_)
SortPairs(ps) ==            \* sorted(mapping.items()): by key
    IF ps = <<>> THEN <<>>
    ELSE LET least == CHOOSE i \in 1..Len(ps) :
                          \A j \in 1..Len(ps) : ~StrLess(ps[j][1].s, ps[i][1].s)
         IN <<ps[least]>>
              \o SortPairs([k \in 1..(Len(ps) - 1) |-> IF k < least THEN ps[k] ELSE ps[k + 1]])

(* yaml.dump: represent, then emit (block style, keys sorted) *)
RECURSIVE YamlDump(_)
YamlDump(v) ==
    CASE v.py = "NoneType" -> EmitScalar("null", <<"n", "u", "l", "l">>)
      [] v.py = "bool" -> EmitScalar("bool", IF v.b THEN <<"t", "r", "u", "e">>
                                                  ELSE <<"f", "a", "l", "s", "e">>)
      [] v.py = "int" -> EmitScalar("int", IntText(v.n))
      [] v.py = "float" -> EmitScalar("float", RepresentFloat(v.m, v.e))
      [] v.py = "str" -> EmitScalar("str", v.s)
      [] v.py = "list" ->
            [kind |-> "seq", nodes |-> [i \in 1..Len(v.items) |-> YamlDump(v.items[i])]]
      [] v.py = "dict" ->
            LET ps == SortPairs(v.pairs)
            IN [kind |-> "map",
                nodes |-> [i \in 1..Len(ps) |-> <<YamlDump(ps[i][1]), YamlDump(ps[i][2])>>]]

(* Constructor *)
RECURSIVE Normal(_, _)
Normal(m, e) ==
    IF m = 0 THEN PyFloat(0, 0)
    ELSE IF m % 10 = 0 THEN Normal(m \div 10, e + 1)
    ELSE PyFloat(m, e)
ConstructFloat(t) ==        \* float(value.replace("_", ""))
    LET x == Without(t, "_")
        u == Unsigned(x)
        at == Find(u, {"e", "E"})
        body == IF at = 0 THEN u ELSE Take(u, at - 1)
        ex == IF at = 0 THEN <<>> ELSE Drop(u, at)
        exVal == IF ex = <<>> THEN 0
                 ELSE (IF ex[1] = "-" THEN -1 ELSE 1) * ParseNat(Unsigned(ex), 10, 0)
        dot == Find(body, {"."})
        whole == IF dot = 0 THEN body ELSE Take(body, dot - 1)
        frac == IF dot = 0 THEN <<>> ELSE Drop(body, dot)
        mag == ParseNat(whole \o frac, 10, 0)
    IN Normal(IF x[1] = "-" THEN -mag ELSE mag, exVal - Len(frac))
ConstructInt(t) ==          \* construct_yaml_int
    LET x == Without(t, "_")
        u == Unsigned(x)
        mag == IF u = <<"0">> THEN 0
               ELSE IF u[1] = "0" THEN ParseNat(Tail(u), 8, 0)
               ELSE ParseNat(u, 10, 0)
    IN PyIntV(IF x[1] = "-" THEN -mag ELSE mag)
ConstructScalar(node) ==
    LET tag == IF node.tag # "" THEN node.tag
               ELSE IF node.style = "plain" THEN ScalarTag(node.text)
               ELSE "str"
    IN CASE tag = "null" -> PyNone
         [] tag = "bool" -> PyBool(node.text \in TrueTexts)
         [] tag = "int" -> ConstructInt(node.text)
         [] tag = "float" -> ConstructFloat(node.text)
         [] tag = "str" -> Str(node.text)

(* yaml.safe_load of the written document *)
RECURSIVE YamlLoad(_)
YamlLoad(node) ==
    CASE node.kind = "scalar" -> ConstructScalar(node)
      [] node.kind = "seq" -> PyList([i \in 1..Len(node.nodes) |-> YamlLoad(node.nodes[i])])
      [] node.kind = "map" ->
            PyDict([i \in 1..Len(node.nodes) |->
                       <<YamlLoad(node.nodes[i][1]), YamlLoad(node.nodes[i][2])>>])

(* dict lookups and ==, which do not see the order of the items *)
HasKey(d, k) == \E i \in 1..Len(d.pairs) : d.pairs[i][1] = Str(k)
Get(d, k) == d.pairs[CHOOSE i \in 1..Len(d.pairs) : d.pairs[i][1] = Str(k)][2]
RECURSIVE PyEq(_, _)
PyEq(a, b) ==
    IF a.py # b.py THEN FALSE
    ELSE IF a.py = "dict"
    THEN /\ Len(a.pairs) = Len(b.pairs)
         /\ \A i \in 1..Len(a.pairs) :
                \E j \in 1..Len(b.pairs) :
                    a.pairs[i][1] = b.pairs[j][1] /\ PyEq(a.pairs[i][2], b.pairs[j][2])
    ELSE IF a.py = "list"
    THEN /\ Len(a.items) = Len(b.items)
         /\ \A i \in 1..Len(a.items) : PyEq(a.items[i], b.items[i])
    ELSE a = b

(* the notebook's nni_config *)
LearningRates == <<PyFloat(1, -4), PyFloat(1, -3), PyFloat(1, -2), PyFloat(1, -1)>>
SearchSpace ==
    PyDict(<<
        <<Str(<<"l", "e", "a", "r", "n", "i", "n", "g", "_", "r", "a", "t", "e">>), PyDict(<<
            <<Str(<<"_", "t", "y", "p", "e">>), Str(<<"c", "h", "o", "i", "c", "e">>)>>,
            <<Str(<<"_", "v", "a", "l", "u", "e">>), PyList(LearningRates)>> >>)>> >>)
TrialConcurrency == 2
MaxTrialNumber == 10
TrialGpuNumber == 1
NniConfig ==
    PyDict(<<
        <<Str(<<"e", "x", "p", "e", "r", "i", "m", "e", "n", "t", "N", "a", "m", "e">>),
          Str(<<"T", "a", "s", "k", "0", "4", "_", "H", "i", "p", "p", "o", "c", "a", "m", "p", "u", "s", "_", "l", "r">>)>>,
        <<Str(<<"s", "e", "a", "r", "c", "h", "S", "p", "a", "c", "e">>), SearchSpace>>,
        <<Str(<<"t", "r", "i", "a", "l", "C", "o", "m", "m", "a", "n", "d">>), PyNone>>,
        <<Str(<<"t", "r", "i", "a", "l", "C", "o", "d", "e", "D", "i", "r", "e", "c", "t", "o", "r", "y">>),
          Str(<<".">>)>>,
        <<Str(<<"t", "r", "i", "a", "l", "G", "p", "u", "N", "u", "m", "b", "e", "r">>), PyIntV(TrialGpuNumber)>>,
        <<Str(<<"t", "r", "i", "a", "l", "C", "o", "n", "c", "u", "r", "r", "e", "n", "c", "y">>), PyIntV(TrialConcurrency)>>,
        <<Str(<<"m", "a", "x", "T", "r", "i", "a", "l", "N", "u", "m", "b", "e", "r">>), PyIntV(MaxTrialNumber)>>,
        <<Str(<<"m", "a", "x", "E", "x", "p", "e", "r", "i", "m", "e", "n", "t", "D", "u", "r", "a", "t", "i", "o", "n">>),
          Str(<<"1", "h">>)>>,
        <<Str(<<"t", "u", "n", "e", "r">>), PyDict(<< <<Str(<<"n", "a", "m", "e">>), Str(<<"G", "r", "i", "d", "S", "e", "a", "r", "c", "h">>)>> >>)>>,
        <<Str(<<"t", "r", "a", "i", "n", "i", "n", "g", "S", "e", "r", "v", "i", "c", "e">>), PyDict(<<
            <<Str(<<"p", "l", "a", "t", "f", "o", "r", "m">>), Str(<<"l", "o", "c", "a", "l">>)>>,
            <<Str(<<"u", "s", "e", "A", "c", "t", "i", "v", "e", "G", "p", "u">>), PyBool(TRUE)>> >>)>> >>)

(* with open(nni_yaml, 'w') as f: yaml.dump(nni_config, f) *)
WrittenDoc == YamlDump(NniConfig)

Cell18 ==
    /\ pc = "cell18"
    /\ nni_config' = NniConfig
    /\ nni_yaml_doc' = WrittenDoc
    /\ fs' = fs \cup {nni_yaml}
    /\ calls' = Append(calls, Call("yaml.dump", nni_yaml))
    /\ defined' = defined \cup {"nni_config"}
    /\ pc' = "done"
    /\ UNCHANGED <<error, directory, algo_objects, device_count, dataVars, input_cfg,
                   bundle_history, selVars, calcVars, nni_gen>>

Next == Cell6 \/ Cell8 \/ Cell10 \/ Cell12 \/ Cell14 \/ Cell15 \/ Cell16 \/ Cell18

Spec == Init /\ [][Next]_vars

(* The calculator alone: from a state in which a run reaches it *)
InitCalc ==
    /\ pc = "cell15"
    /\ error = "none"
    /\ defined = {"root_dir", "dataroot", "datalist_file", "nni_yaml", "work_dir",
                  "datastats_file", "input_cfg", "input", "bundle_generator", "history",
                  "selected_algorithm_index", "algo_dict", "algo_name", "algo"}
    /\ directory = EnvDir
    /\ root_dir = EnvDir
    /\ dataroot = PathJoin(EnvDir, msd_task)
    /\ fs = {dataroot, work_dir, datastats_file, input}
    /\ device_count = 0
    /\ input_cfg \in InputCfgs
    /\ bundle_history = MkHistory("mem", <<(<<"segresnet2d">>)>>)
    /\ algo_objects = Persisted(bundle_history)
    /\ history = bundle_history
    /\ selected_algorithm_index = 0
    /\ algo_dict = history[1]
    /\ algo_name = "segresnet2d"
    /\ algo = Handle("mem", 0, "segresnet2d")
    /\ calls = <<Call("ConfigParser.export_config_file", input),
                 Call("BundleGen", datastats_file), Call("generate", work_dir),
                 Call("get_history", work_dir),
                 Call("export_bundle_algo_history", work_dir),
                 Call("get_history", work_dir)>>
    /\ supplied_max_epochs = 0
    /\ max_epochs = 0
    /\ num_gpus = 0
    /\ num_images_per_batch = 0
    /\ n_data = 0
    /\ override_param = [num_iterations |-> 0]
    /\ nni_gen = [algo |-> NoAlgo, params |-> [num_iterations |-> 0]]
    /\ nni_config = PyNone
    /\ nni_yaml_doc = <<>>

NextCalc == Calculate

SpecCalc == InitCalc /\ [][NextCalc]_vars

----------------------------------------------------------------------------
(* Properties *)

Ran(name) == name \in defined
Returned15 == pc \in {"cell16", "cell18", "done"}
Ran15 == Ran("num_gpus")
Ran14 == Ran("selected_algorithm_index")
FlagFalse == "multigpu" \in DOMAIN input_cfg /\ input_cfg["multigpu"] = FALSE
Count(op) == Cardinality(Called(op))
Added == SubSeq(calls', Len(calls) + 1, Len(calls'))
AddedOps == [i \in 1..Len(Added) |-> Added[i].op]
Position(ops, op) == CHOOSE i \in 1..Len(ops) : ops[i] = op
Has(ops, op) == \E i \in 1..Len(ops) : ops[i] = op

(* C1: whenever the calculator returns, and it returns for all positive      *)
(* inputs, num_iterations is the floor of epochs * n_data / batch / gpus     *)
(* with the safeguarded epoch count, num_iterations_per_validation is the    *)
(* floor of half of it, num_warmup_iterations equals that, and               *)
(* num_images_per_batch and num_epochs are passed through; 24 images, batch  *)
(* 2, one GPU and 2 epochs give 24 and 12.                                   *)
C1_OverrideCalculator ==
    LET e == IF supplied_max_epochs >= 2 THEN supplied_max_epochs ELSE 2
        b == num_images_per_batch
        g == num_gpus
        it == override_param.num_iterations
        val == override_param.num_iterations_per_validation
    IN /\ (Ran15 /\ b > 0 /\ g > 0) => Returned15
       /\ Returned15 =>
            /\ it * b * g <= e * n_data
            /\ e * n_data < (it + 1) * b * g
            /\ 2 * val <= it
            /\ it < 2 * val + 2
            /\ override_param.num_warmup_iterations = val
            /\ override_param.num_images_per_batch = b
            /\ override_param.num_epochs = e
            /\ DOMAIN override_param =
                 {"num_iterations", "num_iterations_per_validation",
                  "num_images_per_batch", "num_epochs", "num_warmup_iterations"}
            /\ (n_data = 24 /\ b = 2 /\ g = 1 /\ supplied_max_epochs = 2)
                 => (it = 24 /\ val = 12)

C1_Witness ==
    /\ pc = "cell16"
    /\ n_data = 24 /\ num_images_per_batch = 2 /\ num_gpus = 1 /\ supplied_max_epochs = 2
    /\ override_param.num_iterations = 24
    /\ override_param.num_iterations_per_validation = 12

(* C2: whatever max_epochs is supplied, 1, 0 and negative values included,   *)
(* the epoch count used is the larger of it and 2: it is at least 2, it is   *)
(* what the iteration formula uses and what num_epochs holds.                *)
C2_EpochsClamped ==
    Ran15 =>
        /\ max_epochs >= 2
        /\ max_epochs >= supplied_max_epochs
        /\ max_epochs \in {2, supplied_max_epochs}
        /\ supplied_max_epochs = 1 => max_epochs = 2
        /\ Returned15 =>
            /\ override_param.num_epochs = max_epochs
            /\ override_param.num_iterations * num_images_per_batch * num_gpus
                 <= max_epochs * n_data
            /\ max_epochs * n_data
                 < (override_param.num_iterations + 1) * num_images_per_batch * num_gpus

C2_Witness ==
    /\ pc = "cell16"
    /\ supplied_max_epochs = 1
    /\ max_epochs = 2
    /\ override_param.num_epochs = 2
    /\ n_data = 24 /\ num_images_per_batch = 2 /\ num_gpus = 1
    /\ override_param.num_iterations = 24

(* C3: with the "multigpu" flag present and false num_gpus is 1 whatever the *)
(* detected accelerator count; with the flag absent, or present and true,    *)
(* num_gpus is the detected accelerator count.                               *)
C3_GpuCount ==
    Ran15 =>
        /\ FlagFalse => num_gpus = 1
        /\ "multigpu" \notin DOMAIN input_cfg => num_gpus = device_count
        /\ ("multigpu" \in DOMAIN input_cfg /\ input_cfg["multigpu"] = TRUE)
             => num_gpus = device_count

C3_Witness == Ran15 /\ FlagFalse /\ device_count = 2 /\ num_gpus = 1

(* what the statistics cell may add to the call log *)
C4_StatsStep ==
    /\ pc = "cell12" =>
        /\ datastats_file \in fs => ~Has(AddedOps, "DataAnalyzer")
        /\ datastats_file \notin fs =>
             /\ Cardinality({i \in 1..Len(Added) : Added[i].op = "DataAnalyzer"}) = 1
             /\ Cardinality({i \in 1..Len(Added) : Added[i].op = "get_all_case_stats"}) = 1
             /\ Added[1] = Call("DataAnalyzer", datastats_file)
        /\ (\A i \in 1..Len(Added) : Added[i].out = "returned" \/ Added[i].op = "generate") =>
             /\ Cardinality({i \in 1..Len(Added) : Added[i].op = "BundleGen"}) = 1
             /\ Added[Position(AddedOps, "BundleGen")].arg = datastats_file
             /\ \A i \in 1..Len(Added) :
                  Added[i].op \in {"DataAnalyzer", "get_all_case_stats"}
                      => i < Position(AddedOps, "BundleGen")
    /\ pc # "cell12" =>
        /\ Count("DataAnalyzer")' = Count("DataAnalyzer")
        /\ Count("BundleGen")' = Count("BundleGen")

(* C4: in the statistics step the analyzer is not invoked when the           *)
(* statistics file exists and is invoked once when it is missing, never more *)
(* than once in a run, and when the step goes on BundleGen is invoked after  *)
(* it with the statistics file path.                                         *)
C4_StatsMemoized == [][C4_StatsStep]_vars

C4_Witness ==
    /\ pc = "cell14"
    /\ Count("DataAnalyzer") = 0
    /\ Count("BundleGen") = 1
    /\ calls[Position([i \in 1..Len(calls) |-> calls[i].op], "BundleGen")].arg = datastats_file

(* C5: a selection that completes at index i >= 0 holds the i-th entry of    *)
(* the history, the i-th key of that entry and the handle stored under that  *)
(* key; at an index >= the history's length the selection fails with an      *)
(* IndexError that ends the run.                                             *)
C5_Selection ==
    LET i == selected_algorithm_index
    IN /\ (Ran("algo") /\ i >= 0) =>
            /\ i < Len(history)
            /\ algo_dict = history[i + 1]
            /\ i < Len(algo_dict)
            /\ algo_name = algo_dict[i + 1][1]
            /\ algo = algo_dict[i + 1][2]
       /\ (Ran14 /\ i >= Len(history)) =>
            /\ pc = "failed"
            /\ error = "IndexError"
            /\ ~Ran("algo_dict") /\ ~Ran("algo")

C5_Witness ==
    /\ Ran14
    /\ Len(history) > 0
    /\ selected_algorithm_index >= Len(history)
    /\ pc = "failed"
    /\ error = "IndexError"

(* what the download cell may do *)
C6_DownloadStep ==
    /\ pc = "cell6" =>
        /\ root_dir' = (IF directory # <<>> THEN directory ELSE TempDir)
        /\ directory = <<>> => (root_dir' \notin fs /\ root_dir' \in fs')
        /\ dataroot' = Append(root_dir', "Task04_Hippocampus")
        /\ dataroot' \in fs => (calls' = calls /\ fs' = fs)
        /\ dataroot' \notin fs =>
             /\ Len(Added) = 1
             /\ Added[1].op = "download_and_extract"
    /\ pc # "cell6" => Count("download_and_extract")' = Count("download_and_extract")

(* C6: the download cell invokes download_and_extract exactly when           *)
(* root_dir/Task04_Hippocampus is absent, never more than once in a run;     *)
(* root_dir is the environment variable's value when set and a directory     *)
(* created by the cell otherwise.                                            *)
C6_DownloadOnlyIfAbsent == [][C6_DownloadStep]_vars

C6_Witness ==
    /\ pc = "cell8"
    /\ directory # <<>>
    /\ root_dir = directory
    /\ Count("download_and_extract") = 0

(* keys of the written document *)
K_searchSpace == <<"s", "e", "a", "r", "c", "h", "S", "p", "a", "c", "e">>
K_trialCommand == <<"t", "r", "i", "a", "l", "C", "o", "m", "m", "a", "n", "d">>
K_trialConcurrency ==
    <<"t", "r", "i", "a", "l", "C", "o", "n", "c", "u", "r", "r", "e", "n", "c", "y">>
K_maxTrialNumber == <<"m", "a", "x", "T", "r", "i", "a", "l", "N", "u", "m", "b", "e", "r">>
K_learning_rate == <<"l", "e", "a", "r", "n", "i", "n", "g", "_", "r", "a", "t", "e">>
K_type == <<"_", "t", "y", "p", "e">>
K_value == <<"_", "v", "a", "l", "u", "e">>
DocValue(doc, k) ==
    doc.nodes[CHOOSE i \in 1..Len(doc.nodes) : doc.nodes[i][1].text = k][2]

(* C7: loading the document written to nni_config.yaml gives back the        *)
(* supplied search space (learning_rate, a choice over 0.0001, 0.001, 0.01,  *)
(* 0.1), trialConcurrency 2 and maxTrialNumber 10, and the document holds    *)
(* trialCommand as null.                                                     *)
C7_ConfigRoundTrips ==
    pc = "done" =>
        LET back == YamlLoad(nni_yaml_doc)
            space == Get(back, K_searchSpace)
            lr == Get(space, K_learning_rate)
        IN /\ PyEq(space, Get(nni_config, K_searchSpace))
           /\ Len(space.pairs) = 1
           /\ Len(lr.pairs) = 2
           /\ Get(lr, K_type) = Str(<<"c", "h", "o", "i", "c", "e">>)
           /\ Get(lr, K_value) =
                PyList(<<PyFloat(1, -4), PyFloat(1, -3), PyFloat(1, -2), PyFloat(1, -1)>>)
           /\ Get(back, K_trialConcurrency) = PyIntV(2)
           /\ Get(back, K_trialConcurrency) = Get(nni_config, K_trialConcurrency)
           /\ Get(back, K_maxTrialNumber) = PyIntV(10)
           /\ Get(back, K_maxTrialNumber) = Get(nni_config, K_maxTrialNumber)
           /\ HasKey(back, K_trialCommand)
           /\ Get(back, K_trialCommand) = PyNone
           /\ DocValue(nni_yaml_doc, K_trialCommand).text = <<"n", "u", "l", "l">>
           /\ DocValue(nni_yaml_doc, K_trialCommand).style = "plain"

C7_Witness ==
    /\ pc = "done"
    /\ nni_yaml \in fs
    /\ Count("yaml.dump") = 1
    /\ nni_yaml_doc.kind = "map"
    /\ Len(nni_yaml_doc.nodes) = 10

(* the get_history call of the selection cell *)
GetHistoryInCell14 == calls[CHOOSE i \in Called("get_history") :
                                \A j \in Called("get_history") : j <= i]

(* C8: the persisted artifacts are imported exactly when get_history raises  *)
(* or returns an empty history; a non-empty history that it returns is the   *)
(* one selected from, and nothing is imported.                               *)
C8_Fallback ==
    Ran14 =>
        /\ Count("import_bundle_algo_history") <= 1
        /\ Count("import_bundle_algo_history") = 1
             <=> (GetHistoryInCell14.out = "raised" \/ Len(bundle_history) = 0)
        /\ Count("import_bundle_algo_history") = 1 => history = algo_objects
        /\ (GetHistoryInCell14.out = "returned" /\ Len(bundle_history) > 0) =>
             /\ history = bundle_history
             /\ Count("import_bundle_algo_history") = 0
             /\ \A i \in 1..Len(history) :
                  \A j \in 1..Len(history[i]) : history[i][j][2].src = "mem"

C8_Witness ==
    /\ pc = "cell15"
    /\ GetHistoryInCell14.out = "raised"
    /\ Count("import_bundle_algo_history") = 1
    /\ Len(bundle_history) > 0
    /\ history = algo_objects
    /\ algo.src = "disk"

(* C9: with a resolved GPU count of 0 (no accelerator detected and the flag  *)
(* not explicitly false) or a batch size of 0 the calculator fails with a    *)
(* ZeroDivisionError that ends the run: no override mapping, no NNIGen, no   *)
(* config file.                                                              *)
C9_DivisionFaultIsFatal ==
    (Ran15 /\ (num_gpus = 0 \/ num_images_per_batch = 0
                 \/ (device_count = 0 /\ ~FlagFalse))) =>
        /\ pc = "failed"
        /\ error = "ZeroDivisionError"
        /\ ~Ran("override_param")
        /\ ~Ran("nni_gen")
        /\ Count("NNIGen") = 0
        /\ Count("yaml.dump") = 0
        /\ nni_yaml \notin fs
        /\ nni_yaml_doc = <<>>

C9_Witness ==
    /\ pc = "failed"
    /\ error = "ZeroDivisionError"
    /\ device_count = 0
    /\ "multigpu" \notin DOMAIN input_cfg
    /\ num_gpus = 0
    /\ num_images_per_batch = 2

(* C10: with a history whose entries each map one name to its handle, and an *)
(* index 0 <= i < len(history), the selection does not fail and yields the   *)
(* handle of the i-th entry.                                                 *)
C10_SelectionInRange ==
    LET i == selected_algorithm_index
    IN (/\ Ran14
        /\ \A k \in 1..Len(history) : Len(history[k]) = 1
        /\ 0 <= i
        /\ i < Len(history)) =>
            /\ error # "IndexError"
            /\ Ran("algo")
            /\ algo = history[i + 1][1][2]

====
